---------------------------- MODULE Spec2Model ----------------------------
(***************************************************************************)
(* A model of the Livepeer Ethereum client (package eth, Client) of        *)
(* go-livepeer: the transaction operations, the approval chain used by     *)
(* Bond and Deposit, WaitForReceipt, WatchEvent and SetManagers.           *)
(*                                                                         *)
(* Goroutines are processes with a program counter; an unbuffered Go       *)
(* channel is a rendezvous: a send and the matching receive are one step,  *)
(* enabled only when both sides are at it.  Time is counted in polling     *)
(* intervals (time.Second, the argument of time.Sleep in WaitForReceipt).  *)
(***************************************************************************)
EXTENDS Integers, Sequences, FiniteSets

(***************************** bounds **************************************)
\* eventTimeout ranges over 0..MaxTimeout polling intervals
MaxTimeout == 2
\* the clock of a wait saturates here: the value MaxClock reads "MaxClock or more"
MaxClock == 5
\* gas limits of a transaction range over 1..MaxGas
MaxGas == 2
\* logs the Approval subscription produces in one run
MaxLogs == 2
\* logs sent on the channel handed to WatchEvent in one run
MaxWatchLogs == 3

Min(a, b) == IF a < b THEN a ELSE b

(***************************** values **************************************)
DirectOps ==
    {"InitializeRound", "Transcoder", "Reward", "Job", "ClaimWork", "Verify",
     "DistributeFees", "Transfer"}
ApprovalOps == {"Bond", "Deposit"}
Ops == DirectOps \cup ApprovalOps

\* types.Log: only the Removed flag is read by the client; id is the log's
\* position in the stream of the subscription (0 for the zero value).
Log(i, r) == [id |-> i, removed |-> r]
ZeroLog == Log(0, FALSE)

\* Transaction hashes: "tx" is tx.Hash() of the transaction being awaited,
\* "other" the hash of any other transaction.
Hashes == {"tx", "other"}

\* *types.Receipt as returned by the node (GasUsed, TxHash); NilReceipt is the
\* nil pointer.
Receipt(g, h) == [present |-> TRUE, gasUsed |-> g, txHash |-> h]
NilReceipt == [present |-> FALSE, gasUsed |-> 0, txHash |-> "none"]

NoErr == "nil"

\* what the caller receives on the handle: one value of outRes or of outErr
ResOutcome(r) ==
    [kind |-> "receipt", err |-> NoErr, gasUsed |-> r.gasUsed, txHash |-> r.txHash]
ErrOutcome(e) == [kind |-> "error", err |-> e, gasUsed |-> 0, txHash |-> "none"]

VARIABLES
    eventTimeout,   \* Client.eventTimeout, in polling intervals
    op,             \* the operation the caller invoked, "none" before
    callerPc,       \* position of the caller's thread
    approveErr,     \* the error Approve met on the caller's thread
    sub,            \* the Approval subscription: none, active, unsubscribed
    unsubCount,     \* calls of sub.Unsubscribe()
    logsChClosed,   \* close(logsCh) done
    subQueue,       \* logs the subscription has still to send on logsCh
    emitted,        \* number of logs the subscription produced
    aPc,            \* goroutine of Approve
    aLog,           \* its local variable log
    approveChClosed,\* Approve's outRes and outErr closed
    bPc,            \* goroutine of the operation (Bond, Deposit, InitializeRound, ...)
    bLog,           \* log received from inRes
    bErr,           \* error the goroutine is about to send on outErr
    bReceipt,       \* receipt the goroutine is about to send on outRes
    timer,          \* time.NewTimer(c.eventTimeout) of Bond/Deposit
    quietAtTimeout, \* history: no log had arrived when the timer case was taken
    dispatched,     \* history: transactions handed to the node, in order
    txGas,          \* tx.Gas() of the transaction being awaited
    elapsed,        \* time since WaitForReceipt was entered
    found,          \* history: the receipt the node returned, if any
    wfrRet,         \* what WaitForReceipt returned
    outcomes,       \* history: values the caller received on the handle
    outClosed,      \* the handle's outRes and outErr are closed
    crashed,        \* the process died of a panic (send on a closed channel)
    attempts,       \* history: contract calls of the operation itself (saturates)
    polls,          \* history: receipt reads by WaitForReceipt (saturates)
    arrivedInTime,  \* history: a log not removed reached Approve before the timer fired
    logHist,        \* history of the wait for the grant, forgotten at the
                    \* dispatch that ends it: per log produced, its flag
                    \* and its origin
    lastFetch,      \* history: the error of the latest receipt fetch
    \* ---- a call of WatchEvent(logsCh) ----
    wPc,            \* idle, waiting (in the select of the loop), returned
    wClock,         \* the clock
    wStart,         \* history: the clock when WatchEvent was called
    wDeadline,      \* when timer = time.NewTimer(c.eventTimeout) expires
    wQueue,         \* logs the sender has still to send on logsCh
    wSent,          \* history: all logs handed to the channel's sender
    wRecvd,         \* history: logs WatchEvent received
    wRet,           \* what WatchEvent returned
    \* ---- the contract bindings and SetManagers ----
    registry,       \* on chain: the address the protocol registry holds per role
    regChanges,     \* number of changes made to the registry
    mAddr,          \* c.bondingManagerAddr, c.jobsManagerAddr, c.roundsManagerAddr
    mSession,       \* the address each c.xxxManagerSession is bound to (0: nil)
    smCall,         \* who made the running or the last call of SetManagers
    smIdx,          \* the role SetManagers is at
    smPc,           \* idle, lookup, bind
    smBefore,       \* history: the bindings when SetManagers was called
    smRet,          \* what the last SetManagers returned: none, nil, err
    smCalls,        \* number of re-resolutions (calls of SetManagers after NewClient)
    constructed,    \* NewClient has returned the client
    smPrevRet,      \* history: what the call before the running or last one returned
    smRegAt,        \* history: regChanges when the running or last call started
    smPrevRegAt,    \* history: regChanges when the call before it started
    \* ---- an operation reading the bindings ----
    rObs,           \* history: the bindings a reader saw during a re-resolution
    rObsCall,       \* history: the re-resolution during which it read them
    \* ---- ProtocolTimeParams ----
    chain,          \* on chain: the five governance parameters
    paramChanges,   \* number of changes governance made to them
    ptPc,           \* 0: no call running; i: the call is at its i-th read
    ptVals,         \* the values the running call has read (0: not yet)
    ptHeld,         \* history: the values each parameter held during the call
    ptRet,          \* what the last call returned
    ptPrev,         \* history: what the call before it returned
    ptCalls,        \* number of calls
    \* ---- RoundInfo ----
    roundState,     \* on chain: current round, its start block, latest block
    riPc,           \* 0: no call running; i: the call is at its i-th read
    riVals,         \* the values the running call has read (0: not yet)
    riHeld,         \* history: the values each item held during the call
    riReads,        \* history: reads the running or last call has issued
    riFailedAt,     \* history: the read that failed (0: none)
    riRet,          \* what the last call returned
    riPrev,         \* history: what the call before it returned
    riCalls,        \* number of calls
    \* ---- Transcode of LocalTranscoder and NvidiaTranscoder ----
    tcKind,         \* the transcoder called
    tcPc,           \* idle, transcode, convert, deferred, returned
    tcPanic,        \* the panic in flight, if any
    tcPanicked,     \* history: the body panicked, and with what value
    tcOwn,          \* history: what the body returned on its own
    tcTd,           \* named result td (0: nil)
    tcRetErr,       \* named result retErr
    tcEscaped,      \* the panic reached the caller of Transcode
    tcCalls,        \* number of calls
    \* ---- TestTranscoderCapabilities, TestSoftwareTranscoderCapabilities ----
    capMode,        \* which of the two functions runs: none, nvidia, software
    allCaps,        \* allCaps of forEachTranscoderSample: per capability, is it
                    \* a default (required) one, has it an entry in the test table
    devices,        \* len(devices)
    capIdx,         \* position of the range loop over allCaps
    capPc,          \* idle, loop, handler, device, failed, returned
    devIdx,         \* position of the range loop over devices
    runRestrictedSessionTest,
    caps,           \* named result caps (positions in allCaps)
    fatalError,     \* named result fatalError
    reached,        \* history: the handler was called for the capability
    ran,            \* history: a transcode was run for the capability
    okCount,        \* history: 4-rendition tests of it that gave valid output
    lastOut,        \* history: what the latest test transcode of it returned
    sessAt,         \* history: the optional capability whose 4-rendition test
                    \* failed on the first device and whose 3-rendition test
                    \* produced valid output (0: none)
    reqFailed       \* history: the required capability that failed (0: none)

opVars ==
    <<eventTimeout, op, callerPc, approveErr, sub, unsubCount, logsChClosed,
      subQueue, emitted, aPc, aLog, approveChClosed, bPc, bLog, bErr, bReceipt,
      timer, quietAtTimeout, dispatched, txGas, elapsed, found, wfrRet,
      outcomes, outClosed, crashed, attempts, polls, arrivedInTime,
      logHist, lastFetch>>

watchVars == <<wPc, wClock, wStart, wDeadline, wQueue, wSent, wRecvd, wRet>>

mgrVars ==
    <<registry, regChanges, mAddr, mSession, smCall, smIdx, smPc, smBefore, smRet,
      smCalls, constructed, smPrevRet, smRegAt, smPrevRegAt>>

rdVars == <<rObs, rObsCall>>

ptVars == <<chain, paramChanges, ptPc, ptVals, ptHeld, ptRet, ptPrev, ptCalls>>

tcVars ==
    <<tcKind, tcPc, tcPanic, tcPanicked, tcOwn, tcTd, tcRetErr, tcEscaped, tcCalls>>

riVars ==
    <<roundState, riPc, riVals, riHeld, riReads, riFailedAt, riRet, riPrev,
      riCalls>>

capVars ==
    <<capMode, allCaps, devices, capIdx, capPc, devIdx,
      runRestrictedSessionTest, caps, fatalError, reached, ran, okCount,
      lastOut, sessAt, reqFailed>>

restVars == <<rdVars, ptVars, tcVars, riVars, capVars>>

vars == <<opVars, watchVars, mgrVars, restVars>>

\* the roles SetManagers resolves, in the order of lines 133, 152, 171
Roles == <<"BondingManager", "JobsManager", "RoundsManager">>
RoleIdx == 1..3
\* contract addresses 1..MaxAddr; 0 is the zero address / a nil session
MaxAddr == 2
Addrs == 1..MaxAddr
\* re-resolutions (calls of SetManagers after NewClient) in one run
MaxCalls == 2
\* changes governance makes to the registry in one run
MaxRegChanges == 1

NoRet == [returned |-> FALSE, receipt |-> NilReceipt, err |-> NoErr]
Ret(r, e) == [returned |-> TRUE, receipt |-> r, err |-> e]

\* NewClient's eventTimeout argument (line 122)
InitTimeout == eventTimeout \in 0..MaxTimeout

InitOp ==
    /\ op = "none"
    /\ callerPc = "idle"
    /\ approveErr = NoErr
    /\ sub = "none"
    /\ unsubCount = 0
    /\ logsChClosed = FALSE
    /\ subQueue = <<>>
    /\ emitted = 0
    /\ aPc = "none"
    /\ aLog = ZeroLog
    /\ approveChClosed = FALSE
    /\ bPc = "none"
    /\ bLog = ZeroLog
    /\ bErr = NoErr
    /\ bReceipt = NilReceipt
    /\ timer = "none"
    /\ quietAtTimeout = FALSE
    /\ dispatched = <<>>
    /\ txGas = 0
    /\ elapsed = 0
    /\ found = NilReceipt
    /\ wfrRet = NoRet
    /\ outcomes = <<>>
    /\ outClosed = FALSE
    /\ crashed = FALSE
    /\ attempts = 0
    /\ polls = 0
    /\ arrivedInTime = FALSE
    /\ logHist = <<>>
    /\ lastFetch = NoErr

NoWatchRet == [returned |-> FALSE, log |-> ZeroLog, err |-> NoErr]
WatchRet(l, e) == [returned |-> TRUE, log |-> l, err |-> e]

InitWatch ==
    /\ wPc = "idle"
    /\ wClock = 0
    /\ wStart = 0
    /\ wDeadline = 0
    /\ wQueue = <<>>
    /\ wSent = <<>>
    /\ wRecvd = <<>>
    /\ wRet = NoWatchRet

Bindings == [addr |-> mAddr, session |-> mSession]

\* before NewClient: the Client struct's manager fields are zero (lines 106-123)
InitMgr ==
    /\ registry \in [RoleIdx -> Addrs]
    /\ regChanges = 0
    /\ mAddr = [i \in RoleIdx |-> 0]
    /\ mSession = [i \in RoleIdx |-> 0]
    /\ smCall = "none"
    /\ smIdx = 0
    /\ smPc = "idle"
    /\ smBefore = [addr |-> [i \in RoleIdx |-> 0], session |-> [i \in RoleIdx |-> 0]]
    /\ smRet = "none"
    /\ smCalls = 0
    /\ constructed = FALSE
    /\ smPrevRet = "none"
    /\ smRegAt = 0
    /\ smPrevRegAt = 0

\* One client: the operations run on a constructed client with its bindings
\* resolved; WatchSpec and ManagersSpec below start from the same state.
InitMgrResolved ==
    /\ registry = [i \in RoleIdx |-> 1]
    /\ regChanges = 0
    /\ mAddr = [i \in RoleIdx |-> 1]
    /\ mSession = [i \in RoleIdx |-> 1]
    /\ smCall = "none"
    /\ smIdx = 0
    /\ smPc = "idle"
    /\ smBefore = [addr |-> [i \in RoleIdx |-> 0], session |-> [i \in RoleIdx |-> 0]]
    /\ smRet = "none"
    /\ smCalls = 0
    /\ constructed = TRUE
    /\ smPrevRet = "none"
    /\ smRegAt = 0
    /\ smPrevRegAt = 0

\* no operation has read the bindings during a re-resolution
InitRead ==
    /\ rObs = [addr |-> [i \in RoleIdx |-> 0], session |-> [i \in RoleIdx |-> 0]]
    /\ rObsCall = 0

\* the governance parameters ProtocolTimeParams reads, in the order of lines
\* 714, 719, 724, 729, 734
ParamNames ==
    <<"RoundLength", "JobEndingPeriod", "VerificationPeriod", "SlashingPeriod",
      "UnbondingPeriod">>
ParamIdx == 1..Len(ParamNames)
\* a parameter's value ranges over 1..MaxParam
MaxParam == 2
\* changes governance makes to the parameters in one run
MaxParamChanges == 2
\* calls of ProtocolTimeParams in one run
MaxParamCalls == 2

NoParams == [i \in ParamIdx |-> 0]
NoParamsRet == [returned |-> FALSE, vals |-> NoParams, err |-> NoErr]
ParamsRet(v, e) == [returned |-> TRUE, vals |-> v, err |-> e]

InitParams ==
    /\ chain = [i \in ParamIdx |-> 1]
    /\ paramChanges = 0
    /\ ptPc = 0
    /\ ptVals = NoParams
    /\ ptHeld = [i \in ParamIdx |-> {}]
    /\ ptRet = NoParamsRet
    /\ ptPrev = NoParamsRet
    /\ ptCalls = 0

\* distinct errors of the environment are numbered 1..MaxErr
MaxErr == 2
\* distinct transcoding results are numbered 1..MaxTd
MaxTd == 2
\* calls of Transcode in one run
MaxTranscodes == 3

\* Go error values: nil, a plain error, or an UnrecoverableError{err}
\* (transcoder.go lines 31-37).  Error(0) is
\* errors.New("unrecoverable transcoding failure") of line 406.
NilError == [nil |-> TRUE, unrecoverable |-> FALSE, id |-> 0]
Error(i) == [nil |-> FALSE, unrecoverable |-> FALSE, id |-> i]
NewUnrecoverableError(err) == [nil |-> FALSE, unrecoverable |-> TRUE, id |-> err.id]
GenericFailure == Error(0)

\* The argument of a panic is any interface value: an error, a value of
\* another type (a string, say), or nil.
NoPanic == [panicking |-> FALSE, type |-> "nil", id |-> 0]
PanicWith(t, i) == [panicking |-> TRUE, type |-> t, id |-> i]
PanicValues ==
    {PanicWith("error", i) : i \in 1..MaxErr}
    \cup {PanicWith("other", i) : i \in 1..MaxErr}
    \cup {PanicWith("nil", 0)}

TranscodeResult(td, err) == [td |-> td, err |-> err]

InitTranscode ==
    /\ tcKind = "none"
    /\ tcPc = "idle"
    /\ tcPanic = NoPanic
    /\ tcPanicked = NoPanic
    /\ tcOwn = TranscodeResult(0, NilError)
    /\ tcTd = 0
    /\ tcRetErr = NilError
    /\ tcEscaped = FALSE
    /\ tcCalls = 0

\* what RoundInfo reads, in the order of lines 255, 262, 271, and the error
\* of each read
RoundReads == <<"CurrentRound", "CurrentRoundStartBlock", "BlockByNumber">>
RoundIdx == 1..Len(RoundReads)
ReadError(i) == RoundReads[i]
\* block numbers and round numbers range over 1..MaxBlock
MaxBlock == 3
\* calls of RoundInfo in one run
MaxRoundCalls == 2

NoRound == [i \in RoundIdx |-> 0]
NoRoundRet == [returned |-> FALSE, vals |-> NoRound, err |-> NoErr]
RoundRet(v, e) == [returned |-> TRUE, vals |-> v, err |-> e]

InitRound ==
    /\ roundState = [i \in RoundIdx |-> 1]
    /\ riPc = 0
    /\ riVals = NoRound
    /\ riHeld = [i \in RoundIdx |-> {}]
    /\ riReads = 0
    /\ riFailedAt = 0
    /\ riRet = NoRoundRet
    /\ riPrev = NoRoundRet
    /\ riCalls = 0

\* capabilities in allCaps
MaxCaps == 3
\* devices handed to TestTranscoderCapabilities
MaxDevices == 2
CapIdx == 1..MaxCaps

\* allCaps := append(DefaultCapabilities(), OptionalCapabilities()...) (line
\* 148): the default capabilities, which are the required ones (line 126),
\* come first; each may or may not have an entry in CapabilityTestLookup
\* (line 153)
CapLists ==
    {l \in [CapIdx -> [required : BOOLEAN, testAvailable : BOOLEAN]] :
        \A i, j \in CapIdx : (i < j /\ l[j].required) => l[i].required}

\* no test transcode has returned yet
NoOutcome == [err |-> FALSE, produced |-> FALSE, valid |-> FALSE]

InitCaps ==
    /\ capMode = "none"
    /\ allCaps = [i \in CapIdx |-> [required |-> FALSE, testAvailable |-> FALSE]]
    /\ devices = 0
    /\ capIdx = 0
    /\ capPc = "idle"
    /\ devIdx = 0
    /\ runRestrictedSessionTest = FALSE
    /\ caps = <<>>
    /\ fatalError = NoErr
    /\ reached = [i \in CapIdx |-> FALSE]
    /\ ran = [i \in CapIdx |-> FALSE]
    /\ okCount = [i \in CapIdx |-> 0]
    /\ lastOut = [i \in CapIdx |-> NoOutcome]
    /\ sessAt = 0
    /\ reqFailed = 0

InitRest == InitRead /\ InitParams /\ InitTranscode /\ InitRound /\ InitCaps

Init == InitTimeout /\ InitOp /\ InitWatch /\ InitMgrResolved /\ InitRest

(************************* the caller's thread *****************************)
\* A direct-submit operation makes its channels, starts its goroutine and
\* returns; Bond and Deposit first run Approve on the caller's thread.
Invoke(o) ==
    /\ ~crashed
    /\ UNCHANGED <<watchVars, mgrVars, restVars>>
    /\ callerPc = "idle"
    /\ op' = o
    /\ IF o \in DirectOps
       THEN /\ callerPc' = "returned"
            /\ bPc' = "dispatch"
       ELSE /\ callerPc' = "subscribe"
            /\ bPc' = bPc
    /\ UNCHANGED <<eventTimeout, approveErr, sub, unsubCount, logsChClosed,
                   subQueue, emitted, aPc, aLog, approveChClosed, bLog, bErr,
                   bReceipt, timer, quietAtTimeout, dispatched, txGas, elapsed,
                   found, wfrRet, outcomes, outClosed, crashed>>
    /\ UNCHANGED <<attempts, polls, arrivedInTime, logHist, lastFetch>>

\* mutant: the error of SubscribeToApproval is ignored and the grant is
\* dispatched all the same
SubscribeErrorIgnored == "approveTx"

\* Where Approve goes when SubscribeToApproval returned an error (lines
\* 618-621): into the send on outErr, before the grant is dispatched.
SubscribeErrorPc == "blockedSend"

\* Approve, line 617: logsCh, sub, err := c.SubscribeToApproval().  On an
\* error Approve sends it on outErr (line 619), an unbuffered channel that
\* nobody holds yet, since Approve has not returned: the caller's thread
\* stays in that send ("blockedSend").
SubscribeToApproval ==
    /\ ~crashed
    /\ UNCHANGED <<watchVars, mgrVars, restVars>>
    /\ callerPc = "subscribe"
    /\ \/ /\ sub' = "active"
          /\ callerPc' = "approveTx"
          /\ approveErr' = approveErr
       \/ /\ sub' = sub
          /\ approveErr' = "SubscriptionError"
          /\ callerPc' = SubscribeErrorPc
    /\ UNCHANGED <<eventTimeout, op, unsubCount, logsChClosed, subQueue,
                   emitted, aPc, aLog, approveChClosed, bPc, bLog, bErr,
                   bReceipt, timer, quietAtTimeout, dispatched, txGas, elapsed,
                   found, wfrRet, outcomes, outClosed, crashed>>
    /\ UNCHANGED <<attempts, polls, arrivedInTime, logHist, lastFetch>>

\* Approve, line 625: _, err = c.tokenSession.Approve(toAddr, amount); on an
\* error the same send on outErr (line 627).
ApproveTx ==
    /\ ~crashed
    /\ UNCHANGED <<watchVars, mgrVars, restVars>>
    /\ callerPc = "approveTx"
    /\ \/ /\ dispatched' = Append(dispatched, "Approve")
          /\ callerPc' = "spawn"
          /\ approveErr' = approveErr
       \/ /\ dispatched' = dispatched
          /\ approveErr' = "SubmissionError"
          /\ callerPc' = "blockedSend"
    /\ UNCHANGED <<eventTimeout, op, sub, unsubCount, logsChClosed, subQueue,
                   emitted, aPc, aLog, approveChClosed, bPc, bLog, bErr,
                   bReceipt, timer, quietAtTimeout, txGas, elapsed,
                   found, wfrRet, outcomes, outClosed, crashed>>
    /\ UNCHANGED <<attempts, polls, arrivedInTime, logHist, lastFetch>>

\* Approve starts its goroutine and returns (lines 633-645); Bond/Deposit
\* make the timer and the handle, start their goroutine and return.
ApproveReturn ==
    /\ ~crashed
    /\ UNCHANGED <<watchVars, mgrVars, restVars>>
    /\ callerPc = "spawn"
    /\ aPc' = "recv"
    /\ timer' = "running"
    /\ bPc' = "select"
    /\ callerPc' = "returned"
    /\ UNCHANGED <<eventTimeout, op, approveErr, sub, unsubCount, logsChClosed,
                   subQueue, emitted, aLog, approveChClosed, bLog, bErr,
                   bReceipt, quietAtTimeout, dispatched, txGas, elapsed,
                   found, wfrRet, outcomes, outClosed, crashed>>
    /\ UNCHANGED <<attempts, polls, arrivedInTime, logHist, lastFetch>>

\* The only receive on Approve's outErr is the select of Bond/Deposit.
ApproveErrReceiverReady == bPc = "select"

(***************** the node's subscription and the timer ********************)
\* The subscription has a log matching the filter to send on logsCh.  The
\* filter (lines 656-659) names the token contract, the Approval event and
\* the account as owner, and no spender: it matches the Approval event of
\* this operation's grant (own, possible once the grant is dispatched) and
\* the Approval event of any other grant of the account, such as the one of
\* a Bond or Deposit running at the same time.  A log may be flagged
\* removed (a reorg).
EmitLog(r, own) ==
    /\ ~crashed
    /\ UNCHANGED <<watchVars, mgrVars, restVars>>
    /\ sub = "active"
    /\ emitted < MaxLogs
    /\ own => dispatched # <<>>
    /\ logHist' = Append(logHist, [removed |-> r, own |-> own])
    /\ emitted' = emitted + 1
    /\ subQueue' = Append(subQueue, Log(emitted + 1, r))
    /\ UNCHANGED <<eventTimeout, op, callerPc, approveErr, sub, unsubCount,
                   logsChClosed, aPc, aLog, approveChClosed, bPc, bLog, bErr,
                   bReceipt, timer, quietAtTimeout, dispatched, txGas, elapsed,
                   found, wfrRet, outcomes, outClosed, crashed>>
    /\ UNCHANGED <<attempts, polls, arrivedInTime, lastFetch>>

\* The subscription sends on logsCh after Approve's goroutine closed it and
\* before Unsubscribe: a send on a closed channel panics.
SendOnClosed ==
    /\ ~crashed
    /\ UNCHANGED <<watchVars, mgrVars, restVars>>
    /\ sub = "active"
    /\ logsChClosed
    /\ subQueue # <<>>
    /\ crashed' = TRUE
    /\ UNCHANGED <<eventTimeout, op, callerPc, approveErr, sub, unsubCount,
                   logsChClosed, subQueue, emitted, aPc, aLog, approveChClosed,
                   bPc, bLog, bErr, bReceipt, timer, quietAtTimeout, dispatched,
                   txGas, elapsed, found, wfrRet, outcomes, outClosed>>
    /\ UNCHANGED <<attempts, polls, arrivedInTime, logHist, lastFetch>>

\* time.NewTimer(c.eventTimeout) expires.
TimerFire ==
    /\ ~crashed
    /\ UNCHANGED <<watchVars, mgrVars, restVars>>
    /\ timer = "running"
    /\ timer' = "fired"
    /\ UNCHANGED <<eventTimeout, op, callerPc, approveErr, sub, unsubCount,
                   logsChClosed, subQueue, emitted, aPc, aLog, approveChClosed,
                   bPc, bLog, bErr, bReceipt, quietAtTimeout, dispatched, txGas,
                   elapsed, found, wfrRet, outcomes, outClosed, crashed>>
    /\ UNCHANGED <<attempts, polls, arrivedInTime, logHist, lastFetch>>

(************************ the goroutine of Approve *************************)
\* line 634: log := <-logsCh
ApproveRecvLog ==
    /\ ~crashed
    /\ UNCHANGED <<watchVars, mgrVars, restVars>>
    /\ aPc = "recv"
    /\ sub = "active"
    /\ subQueue # <<>>
    /\ aLog' = Head(subQueue)
    /\ subQueue' = Tail(subQueue)
    /\ aPc' = "closeLogs"
    /\ arrivedInTime' = (~Head(subQueue).removed /\ timer = "running")
    /\ UNCHANGED <<eventTimeout, op, callerPc, approveErr, sub, unsubCount,
                   logsChClosed, emitted, approveChClosed, bPc, bLog, bErr,
                   bReceipt, timer, quietAtTimeout, dispatched, txGas, elapsed,
                   found, wfrRet, outcomes, outClosed, crashed>>
    /\ UNCHANGED <<attempts, polls, logHist, lastFetch>>

\* line 636: close(logsCh)
ApproveCloseLogs ==
    /\ ~crashed
    /\ UNCHANGED <<watchVars, mgrVars, restVars>>
    /\ aPc = "closeLogs"
    /\ logsChClosed' = TRUE
    /\ aPc' = "unsub"
    /\ UNCHANGED <<eventTimeout, op, callerPc, approveErr, sub, unsubCount,
                   subQueue, emitted, aLog, approveChClosed, bPc, bLog, bErr,
                   bReceipt, timer, quietAtTimeout, dispatched, txGas, elapsed,
                   found, wfrRet, outcomes, outClosed, crashed>>
    /\ UNCHANGED <<attempts, polls, arrivedInTime, logHist, lastFetch>>

\* line 637: sub.Unsubscribe()
ApproveUnsubscribe ==
    /\ ~crashed
    /\ UNCHANGED <<watchVars, mgrVars, restVars>>
    /\ aPc = "unsub"
    /\ sub' = "unsubscribed"
    /\ unsubCount' = unsubCount + 1
    /\ subQueue' = <<>>
    /\ aPc' = "send"
    /\ UNCHANGED <<eventTimeout, op, callerPc, approveErr, logsChClosed,
                   emitted, aLog, approveChClosed, bPc, bLog, bErr, bReceipt,
                   timer, quietAtTimeout, dispatched, txGas, elapsed, found,
                   wfrRet, outcomes, outClosed, crashed>>
    /\ UNCHANGED <<attempts, polls, arrivedInTime, logHist, lastFetch>>

\* lines 641-642: close(outRes); close(outErr)
ApproveCloseOut ==
    /\ ~crashed
    /\ UNCHANGED <<watchVars, mgrVars, restVars>>
    /\ aPc = "closeOut"
    /\ approveChClosed' = TRUE
    /\ aPc' = "done"
    /\ UNCHANGED <<eventTimeout, op, callerPc, approveErr, sub, unsubCount,
                   logsChClosed, subQueue, emitted, aLog, bPc, bLog, bErr,
                   bReceipt, timer, quietAtTimeout, dispatched, txGas, elapsed,
                   found, wfrRet, outcomes, outClosed, crashed>>
    /\ UNCHANGED <<attempts, polls, arrivedInTime, logHist, lastFetch>>

(******************* the goroutine of Bond and Deposit *********************)
\* mutant: the Removed flag of the grant log is not tested
BondAcceptsAny(log) == TRUE

\* lines 366, 438: if !log.Removed
BondAccepts(log) == ~log.removed

\* mutant: the timer case leaves the select without sending on outErr
TimerBranchFallsThrough == "closing"

\* Where the timer case of the select goes after setting the error
\* (lines 388, 460: outErr <- fmt.Errorf("Event subscription timed out")).
TimerBranchPc == "sendErr"

\* Approve's line 639 (outRes <- log) meets the case log := <-inRes of the
\* select (lines 365, 437).  The select is not in a loop: a removed log
\* leaves it, the goroutine returns and the deferred closes run.
SelectLog ==
    /\ ~crashed
    /\ UNCHANGED <<watchVars, mgrVars, restVars>>
    /\ aPc = "send"
    /\ bPc = "select"
    /\ bLog' = aLog
    /\ aPc' = "closeOut"
    /\ bPc' = IF BondAccepts(aLog) THEN "dispatch" ELSE "closing"
    /\ UNCHANGED <<eventTimeout, op, callerPc, approveErr, sub, unsubCount,
                   logsChClosed, subQueue, emitted, aLog, approveChClosed, bErr,
                   bReceipt, timer, quietAtTimeout, dispatched, txGas, elapsed,
                   found, wfrRet, outcomes, outClosed, crashed>>
    /\ UNCHANGED <<attempts, polls, arrivedInTime, logHist, lastFetch>>

\* case <-timer.C (lines 387-389, 459-461)
SelectTimer ==
    /\ ~crashed
    /\ UNCHANGED <<watchVars, mgrVars, restVars>>
    /\ bPc = "select"
    /\ timer = "fired"
    /\ bErr' = "EventTimeout"
    /\ bPc' = TimerBranchPc
    /\ quietAtTimeout' = (emitted = 0)
    /\ UNCHANGED <<eventTimeout, op, callerPc, approveErr, sub, unsubCount,
                   logsChClosed, subQueue, emitted, aPc, aLog, approveChClosed,
                   bLog, bReceipt, timer, dispatched, txGas, elapsed, found,
                   wfrRet, outcomes, outClosed, crashed>>
    /\ UNCHANGED <<attempts, polls, arrivedInTime, logHist, lastFetch>>

\* mutant: a failed contract call is made again
DispatchErrorRetries == "dispatch"

\* Where the goroutine goes when the contract call returned an error
\* (lines 303-306: outErr <- err; return).
DispatchErrorPc == "sendErr"

\* The contract call of the operation (InitializeRound line 302, Bond line 367,
\* Deposit line 439, ...): the node returns the transaction or a dispatch error.
Dispatch ==
    /\ ~crashed
    /\ UNCHANGED <<watchVars, mgrVars, restVars>>
    /\ bPc = "dispatch"
    /\ attempts' = Min(attempts + 1, MaxClock)
    /\ \/ \E g \in 1..MaxGas :
            /\ dispatched' = Append(dispatched, op)
            /\ txGas' = g
            /\ elapsed' = 0
            /\ bPc' = "wfrLoop"
            /\ bErr' = bErr
       \/ /\ bErr' = "SubmissionError"
          /\ bPc' = DispatchErrorPc
          /\ UNCHANGED <<dispatched, txGas, elapsed>>
    /\ logHist' = <<>>
    /\ UNCHANGED <<polls, arrivedInTime, lastFetch>>
    /\ UNCHANGED <<eventTimeout, op, callerPc, approveErr, sub, unsubCount,
                   logsChClosed, subQueue, emitted, aPc, aLog, approveChClosed,
                   bLog, bReceipt, timer, quietAtTimeout, found, wfrRet,
                   outcomes, outClosed, crashed>>

(***************************** WaitForReceipt ******************************)
\* time.Now(): the clock, read relative to the entry of WaitForReceipt
TimeNow == elapsed

\* time.Since(t)
TimeSince(t) == TimeNow - t

\* line 790: for time.Since(time.Now()) < c.eventTimeout
LoopCond == TimeSince(TimeNow) < eventTimeout

\* mutant: the comparison of line 799 inverted
ThrewInverted(gas, receipt) == gas # receipt.gasUsed

\* lines 799-803: tx.Gas().Cmp(receipt.GasUsed) == 0 is the revert signal
Threw(gas, receipt) == gas = receipt.gasUsed

\* What the node answers to TransactionReceipt(ctx, tx.Hash()) (line 793):
\* no receipt yet, another error, or a receipt.  The receipt of the awaited
\* transaction has used at most its gas limit; the client has only the
\* node's word that a receipt is the one of the hash it asked for.
NodeAnswers(gas) ==
    {[receipt |-> NilReceipt, err |-> "NotFound"],
     [receipt |-> NilReceipt, err |-> "RpcError"]}
    \cup {[receipt |-> Receipt(g, "tx"), err |-> NoErr] : g \in 1..gas}
    \cup {[receipt |-> Receipt(g, "other"), err |-> NoErr] : g \in 1..MaxGas}

\* mutant: a not-found answer ends the wait like any other error
AnyErrorEndsWait(err) == err # NoErr

\* line 794: err != nil && err != ethereum.NotFound
FetchFailed(err) == err # NoErr /\ err # "NotFound"

\* mutant: the goroutine drops the error of WaitForReceipt and sends the
\* receipt
WaitReturnDropsError(r, e) ==
    /\ wfrRet' = Ret(r, e)
    /\ bErr' = bErr
    /\ bReceipt' = r
    /\ bPc' = "sendRes"

\* WaitForReceipt returns (r, e) and the calling goroutine goes on to send
\* on outErr or on outRes (lines 310-315, 375-380).
WaitReturn(r, e) ==
    /\ wfrRet' = Ret(r, e)
    /\ IF e # NoErr
       THEN /\ bErr' = e
            /\ bReceipt' = bReceipt
            /\ bPc' = "sendErr"
       ELSE /\ bErr' = bErr
            /\ bReceipt' = r
            /\ bPc' = "sendRes"

\* the loop test (line 790) and, when it fails, line 809
WaitLoop ==
    /\ ~crashed
    /\ UNCHANGED <<watchVars, mgrVars, restVars>>
    /\ bPc = "wfrLoop"
    /\ IF LoopCond
       THEN /\ bPc' = "wfrPoll"
            /\ UNCHANGED <<wfrRet, bErr, bReceipt>>
       ELSE WaitReturn(NilReceipt, "ConfirmationTimeout")
    /\ UNCHANGED <<eventTimeout, op, callerPc, approveErr, sub, unsubCount,
                   logsChClosed, subQueue, emitted, aPc, aLog, approveChClosed,
                   bLog, timer, quietAtTimeout, dispatched, txGas, elapsed,
                   found, outcomes, outClosed, crashed>>
    /\ UNCHANGED <<attempts, polls, arrivedInTime, logHist, lastFetch>>

\* the loop body (lines 791-806)
WaitPoll ==
    /\ ~crashed
    /\ UNCHANGED <<watchVars, mgrVars, restVars>>
    /\ bPc = "wfrPoll"
    /\ polls' = Min(polls + 1, MaxClock)
    /\ UNCHANGED <<attempts, arrivedInTime, logHist>>
    /\ \E ans \in NodeAnswers(txGas) :
          /\ lastFetch' = ans.err
          /\ IF FetchFailed(ans.err)
             THEN /\ WaitReturn(NilReceipt, ans.err)
                  /\ UNCHANGED <<found, elapsed>>
             ELSE IF ans.receipt.present
             THEN /\ found' = ans.receipt
                  /\ elapsed' = elapsed
                  /\ IF Threw(txGas, ans.receipt)
                     THEN WaitReturn(NilReceipt, "Threw")
                     ELSE WaitReturn(ans.receipt, NoErr)
             ELSE /\ elapsed' = Min(elapsed + 1, MaxClock)
                  /\ bPc' = "wfrLoop"
                  /\ UNCHANGED <<found, wfrRet, bErr, bReceipt>>
    /\ UNCHANGED <<eventTimeout, op, callerPc, approveErr, sub, unsubCount,
                   logsChClosed, subQueue, emitted, aPc, aLog, approveChClosed,
                   bLog, timer, quietAtTimeout, dispatched, txGas, outcomes,
                   outClosed, crashed>>

(*************************** delivering the outcome ************************)
\* outErr <- err, received by the caller that holds the handle
SendErr ==
    /\ ~crashed
    /\ UNCHANGED <<watchVars, mgrVars, restVars>>
    /\ bPc = "sendErr"
    /\ callerPc = "returned"
    /\ outcomes' = Append(outcomes, ErrOutcome(bErr))
    /\ bPc' = "closing"
    /\ UNCHANGED <<eventTimeout, op, callerPc, approveErr, sub, unsubCount,
                   logsChClosed, subQueue, emitted, aPc, aLog, approveChClosed,
                   bLog, bErr, bReceipt, timer, quietAtTimeout, dispatched,
                   txGas, elapsed, found, wfrRet, outClosed, crashed>>
    /\ UNCHANGED <<attempts, polls, arrivedInTime, logHist, lastFetch>>

\* outRes <- *receipt
SendRes ==
    /\ ~crashed
    /\ UNCHANGED <<watchVars, mgrVars, restVars>>
    /\ bPc = "sendRes"
    /\ callerPc = "returned"
    /\ outcomes' = Append(outcomes, ResOutcome(bReceipt))
    /\ bPc' = "closing"
    /\ UNCHANGED <<eventTimeout, op, callerPc, approveErr, sub, unsubCount,
                   logsChClosed, subQueue, emitted, aPc, aLog, approveChClosed,
                   bLog, bErr, bReceipt, timer, quietAtTimeout, dispatched,
                   txGas, elapsed, found, wfrRet, outClosed, crashed>>
    /\ UNCHANGED <<attempts, polls, arrivedInTime, logHist, lastFetch>>

\* the deferred close(outErr) and close(outRes)
CloseOut ==
    /\ ~crashed
    /\ UNCHANGED <<watchVars, mgrVars, restVars>>
    /\ bPc = "closing"
    /\ outClosed' = TRUE
    /\ bPc' = "done"
    /\ UNCHANGED <<eventTimeout, op, callerPc, approveErr, sub, unsubCount,
                   logsChClosed, subQueue, emitted, aPc, aLog, approveChClosed,
                   bLog, bErr, bReceipt, timer, quietAtTimeout, dispatched,
                   txGas, elapsed, found, wfrRet, outcomes, crashed>>
    /\ UNCHANGED <<attempts, polls, arrivedInTime, logHist, lastFetch>>

\* steps of the program's own threads and goroutines
Program ==
    \/ SubscribeToApproval
    \/ ApproveTx
    \/ ApproveReturn
    \/ ApproveRecvLog
    \/ ApproveCloseLogs
    \/ ApproveUnsubscribe
    \/ ApproveCloseOut
    \/ SelectLog
    \/ SelectTimer
    \/ Dispatch
    \/ WaitLoop
    \/ WaitPoll
    \/ SendErr
    \/ SendRes
    \/ CloseOut

Next ==
    \/ \E o \in Ops : Invoke(o)
    \/ \E r \in BOOLEAN, own \in BOOLEAN : EmitLog(r, own)
    \/ SendOnClosed
    \/ TimerFire
    \/ Program

Spec == Init /\ [][Next]_vars

\* The Go scheduler runs every goroutine that can take a step, and a running
\* timer expires; the node owes neither a log nor a receipt.
FairSpec == Spec /\ WF_vars(Program) /\ WF_vars(TimerFire)

(***************************************************************************)
(* WatchEvent(logsCh), lines 234-252, called with a channel on which a      *)
(* sender (a log subscription) delivers logs one at a time.                *)
(***************************************************************************)
\* mutant: the Removed flag is not tested
WatchAcceptsAny(log) == TRUE

\* line 242: if !log.Removed
WatchAccepts(log) == ~log.removed

\* mutant: a removed log restarts the timer
DeadlineRestarted(deadline, now) == now + eventTimeout

\* The timer is made once, before the loop (line 236); the branch of a
\* removed log (lines 241-244) does not touch it.
DeadlineAfterRemoved(deadline, now) == deadline

\* case <-timer.C is ready (line 245)
WatchTimerFired == wClock >= wDeadline

\* the call: timer = time.NewTimer(c.eventTimeout), then the loop's select
WatchCall ==
    /\ wPc = "idle"
    /\ wPc' = "waiting"
    /\ wStart' = wClock
    /\ wDeadline' = wClock + eventTimeout
    /\ UNCHANGED <<wClock, wQueue, wSent, wRecvd, wRet>>
    /\ UNCHANGED <<opVars, mgrVars, restVars>>

\* the sender has one more log for the channel, removed or not
WatchSend(r) ==
    /\ Len(wSent) < MaxWatchLogs
    /\ wQueue' = Append(wQueue, Log(Len(wSent) + 1, r))
    /\ wSent' = Append(wSent, Log(Len(wSent) + 1, r))
    /\ UNCHANGED <<wPc, wClock, wStart, wDeadline, wRecvd, wRet>>
    /\ UNCHANGED <<opVars, mgrVars, restVars>>

\* time passes; the clock of a call that has returned is not read again
WatchTick ==
    /\ wPc # "returned"
    /\ wClock < MaxClock
    /\ wClock' = wClock + 1
    /\ UNCHANGED <<wPc, wStart, wDeadline, wQueue, wSent, wRecvd, wRet>>
    /\ UNCHANGED <<opVars, mgrVars, restVars>>

\* case log := <-logsCh (lines 241-244)
WatchRecv ==
    /\ wPc = "waiting"
    /\ wQueue # <<>>
    /\ wQueue' = Tail(wQueue)
    /\ wRecvd' = Append(wRecvd, Head(wQueue))
    /\ IF WatchAccepts(Head(wQueue))
       THEN /\ wRet' = WatchRet(Head(wQueue), NoErr)
            /\ wPc' = "returned"
            /\ wDeadline' = wDeadline
       ELSE /\ wDeadline' = DeadlineAfterRemoved(wDeadline, wClock)
            /\ UNCHANGED <<wRet, wPc>>
    /\ UNCHANGED <<wClock, wStart, wSent>>
    /\ UNCHANGED <<opVars, mgrVars, restVars>>

\* case <-timer.C (lines 245-249)
WatchTimeout ==
    /\ wPc = "waiting"
    /\ WatchTimerFired
    /\ wRet' = WatchRet(ZeroLog, "EventTimeout")
    /\ wPc' = "returned"
    /\ UNCHANGED <<wClock, wStart, wDeadline, wQueue, wSent, wRecvd>>
    /\ UNCHANGED <<opVars, mgrVars, restVars>>

WatchNext ==
    \/ WatchCall
    \/ \E r \in BOOLEAN : WatchSend(r)
    \/ WatchTick
    \/ WatchRecv
    \/ WatchTimeout

WatchSpec == Init /\ [][WatchNext]_vars

(***************************************************************************)
(* NewClient (lines 86-130) and SetManagers (lines 132-193).               *)
(***************************************************************************)
\* protocol governance points a role of the registry at another contract
RegistryChange(i, a) ==
    /\ registry[i] # a
    /\ regChanges < MaxRegChanges
    /\ regChanges' = regChanges + 1
    /\ registry' = [registry EXCEPT ![i] = a]
    /\ UNCHANGED <<mAddr, mSession, smCall, smIdx, smPc, smBefore, smRet,
                   smCalls, constructed, smPrevRet, smRegAt, smPrevRegAt>>
    /\ UNCHANGED <<opVars, watchVars, restVars>>

\* NewClient builds the Client with zero manager fields and calls
\* c.SetManagers() (line 127)
NewClient ==
    /\ ~constructed
    /\ smCall = "none"
    /\ smCall' = "NewClient"
    /\ smBefore' = Bindings
    /\ smIdx' = 1
    /\ smPc' = "lookup"
    /\ smRet' = "none"
    /\ smPrevRet' = smRet
    /\ smPrevRegAt' = smRegAt
    /\ smRegAt' = regChanges
    /\ UNCHANGED <<registry, regChanges, mAddr, mSession, smCalls, constructed>>
    /\ UNCHANGED <<opVars, watchVars, restVars>>

\* a later call of SetManagers on the constructed client (re-resolution)
SetManagers ==
    /\ constructed
    /\ smPc = "idle"
    /\ smCalls < MaxCalls
    /\ smCalls' = smCalls + 1
    /\ smCall' = "SetManagers"
    /\ smBefore' = Bindings
    /\ smIdx' = 1
    /\ smPc' = "lookup"
    /\ smRet' = "none"
    /\ smPrevRet' = smRet
    /\ smPrevRegAt' = smRegAt
    /\ smRegAt' = regChanges
    /\ UNCHANGED <<registry, regChanges, mAddr, mSession, constructed>>
    /\ UNCHANGED <<opVars, watchVars, restVars>>

\* SetManagers returns r; NewClient drops the result and returns the client
\* with a nil error (lines 127-129)
SetManagersReturn(r) ==
    /\ smRet' = r
    /\ smPc' = "idle"
    /\ smIdx' = 0
    /\ smCall' = smCall
    /\ constructed' = TRUE

\* mutant: every address is assigned to the field of the first role
AddrToFirstRole(i, a) == [mAddr EXCEPT ![1] = a]

\* c.protocolSession.Registry(hash(role)) (lines 133, 152, 171); on success
\* the address field is assigned at once (lines 139, 158, 177)
AddrAfterLookup(i, a) == [mAddr EXCEPT ![i] = a]

SetManagersLookup ==
    /\ smPc = "lookup"
    /\ \/ /\ mAddr' = AddrAfterLookup(smIdx, registry[smIdx])
          /\ smPc' = "bind"
          /\ UNCHANGED <<smCall, smIdx, smRet, constructed>>
       \/ /\ SetManagersReturn("err")
          /\ mAddr' = mAddr
    /\ UNCHANGED <<registry, regChanges, mSession, smBefore, smCalls,
                   smPrevRet, smRegAt, smPrevRegAt>>
    /\ UNCHANGED <<opVars, watchVars, restVars>>

\* contracts.NewBondingManager(addr, c.backend) and the like (lines 141, 160,
\* 179); on success the session field is assigned (lines 147, 166, 185)
SetManagersBind ==
    /\ smPc = "bind"
    /\ \/ /\ mSession' = [mSession EXCEPT ![smIdx] = mAddr[smIdx]]
          /\ IF smIdx < 3
             THEN /\ smIdx' = smIdx + 1
                  /\ smPc' = "lookup"
                  /\ UNCHANGED <<smCall, smRet, constructed>>
             ELSE SetManagersReturn("nil")
       \/ /\ SetManagersReturn("err")
          /\ mSession' = mSession
    /\ UNCHANGED <<registry, regChanges, mAddr, smBefore, smCalls,
                   smPrevRet, smRegAt, smPrevRegAt>>
    /\ UNCHANGED <<opVars, watchVars, restVars>>

\* SetManagers reads no timeout
ManagersInit ==
    eventTimeout = MaxTimeout /\ InitOp /\ InitWatch /\ InitMgr /\ InitRest

ManagersNext ==
    \/ \E i \in RoleIdx, a \in Addrs : RegistryChange(i, a)
    \/ NewClient
    \/ SetManagers
    \/ SetManagersLookup
    \/ SetManagersBind

ManagersSpec == ManagersInit /\ [][ManagersNext]_vars

\* An operation on another goroutine reads the manager fields of the client
\* (ProtocolTimeParams reads the three sessions, lines 714-734; Bond reads
\* c.bondingManagerAddr and c.bondingManagerSession, lines 354 and 367)
\* while a re-resolution is between two of its assignments.  No lock guards
\* the fields; the reader is given the most it can get, all six fields in
\* one step.
ReadBindings ==
    /\ constructed
    /\ smCall = "SetManagers"
    /\ smPc # "idle"
    /\ rObsCall < smCalls
    /\ rObs' = Bindings
    /\ rObsCall' = smCalls
    /\ UNCHANGED <<opVars, watchVars, mgrVars, ptVars, tcVars, riVars, capVars>>

ReadersNext ==
    \/ ManagersNext
    \/ ReadBindings

ReadersSpec == ManagersInit /\ [][ReadersNext]_vars

(***************************************************************************)
(* ProtocolTimeParams (lines 707-754): five reads of the chain, one after  *)
(* the other, each through the contract session of its manager.            *)
(***************************************************************************)
\* protocol governance sets a parameter to another value
ParamChange(i, v) ==
    /\ chain[i] # v
    /\ paramChanges < MaxParamChanges
    /\ paramChanges' = paramChanges + 1
    /\ chain' = [chain EXCEPT ![i] = v]
    /\ ptHeld' = IF ptPc # 0 THEN [ptHeld EXCEPT ![i] = @ \cup {v}] ELSE ptHeld
    /\ UNCHANGED <<ptPc, ptVals, ptRet, ptPrev, ptCalls>>
    /\ UNCHANGED <<opVars, watchVars, mgrVars, rdVars, tcVars, riVars, capVars>>

\* the call; the Client has no field that holds a parameter (lines 61-84)
ProtocolTimeParams ==
    /\ ptPc = 0
    /\ ptCalls < MaxParamCalls
    /\ ptCalls' = ptCalls + 1
    /\ ptPc' = 1
    /\ ptVals' = NoParams
    /\ ptHeld' = [i \in ParamIdx |-> {chain[i]}]
    /\ ptPrev' = ptRet
    /\ ptRet' = NoParamsRet
    /\ UNCHANGED <<chain, paramChanges>>
    /\ UNCHANGED <<opVars, watchVars, mgrVars, rdVars, tcVars, riVars, capVars>>

\* mutant: a value that an earlier call returned is returned again
CachedRead(i) ==
    IF ptPrev.returned /\ ptPrev.err = NoErr THEN ptPrev.vals[i] ELSE chain[i]

\* c.roundsManagerSession.RoundLength() and the like (lines 714, 719, 724,
\* 729, 734): a call of the contract at the chain's current state
LiveRead(i) == chain[i]

\* one read and its error test; after the last read the struct is built and
\* returned (lines 739-753)
ProtocolTimeParamsRead ==
    /\ ptPc \in ParamIdx
    /\ \/ /\ ptRet' = ParamsRet(NoParams, "RpcError")
          /\ ptPc' = 0
          /\ ptVals' = ptVals
       \/ /\ ptVals' = [ptVals EXCEPT ![ptPc] = LiveRead(ptPc)]
          /\ IF ptPc = Len(ParamNames)
             THEN /\ ptRet' = ParamsRet(ptVals', NoErr)
                  /\ ptPc' = 0
             ELSE /\ ptRet' = ptRet
                  /\ ptPc' = ptPc + 1
    /\ UNCHANGED <<chain, paramChanges, ptHeld, ptPrev, ptCalls>>
    /\ UNCHANGED <<opVars, watchVars, mgrVars, rdVars, tcVars, riVars, capVars>>

ParamsNext ==
    \/ \E i \in ParamIdx, v \in 1..MaxParam : ParamChange(i, v)
    \/ ProtocolTimeParams
    \/ ProtocolTimeParamsRead

\* ProtocolTimeParams reads no timeout
ParamsInit ==
    eventTimeout = MaxTimeout /\ InitOp /\ InitWatch /\ InitMgrResolved /\ InitRest

ParamsSpec == ParamsInit /\ [][ParamsNext]_vars

(***************************************************************************)
(* RoundInfo (lines 254-279): the current round and its start block from   *)
(* the RoundsManager, then the latest block from the node.                 *)
(***************************************************************************)
\* a block is mined; with it a new round may be initialized, which starts at
\* that block
ChainAdvance(newRound) ==
    /\ roundState[3] < MaxBlock
    /\ roundState' =
           IF newRound
           THEN <<roundState[1] + 1, roundState[3] + 1, roundState[3] + 1>>
           ELSE [roundState EXCEPT ![3] = @ + 1]
    /\ riHeld' = IF riPc # 0
                 THEN [i \in RoundIdx |-> riHeld[i] \cup {roundState'[i]}]
                 ELSE riHeld
    /\ UNCHANGED <<riPc, riVals, riReads, riFailedAt, riRet, riPrev, riCalls>>
    /\ UNCHANGED <<opVars, watchVars, mgrVars, rdVars, ptVars, tcVars, capVars>>

\* the call; the Client has no field that holds round state (lines 61-84)
RoundInfo ==
    /\ riPc = 0
    /\ riCalls < MaxRoundCalls
    /\ riCalls' = riCalls + 1
    /\ riPc' = 1
    /\ riVals' = NoRound
    /\ riHeld' = [i \in RoundIdx |-> {roundState[i]}]
    /\ riReads' = 0
    /\ riFailedAt' = 0
    /\ riPrev' = riRet
    /\ riRet' = NoRoundRet
    /\ UNCHANGED roundState
    /\ UNCHANGED <<opVars, watchVars, mgrVars, rdVars, ptVars, tcVars, capVars>>

\* mutant: a failed read falls back to the values of the call before
ReadErrorFallsBack == riPrev.vals

\* return nil, nil, nil, err (lines 259, 266, 275)
ReadErrorVals == NoRound

\* one read and its error test (lines 255-260, 262-267, 271-276); after the
\* last read the three values are returned (line 278)
RoundInfoRead ==
    /\ riPc \in RoundIdx
    /\ riReads' = riReads + 1
    /\ \/ /\ riRet' = RoundRet(ReadErrorVals, ReadError(riPc))
          /\ riFailedAt' = riPc
          /\ riPc' = 0
          /\ riVals' = riVals
       \/ /\ riVals' = [riVals EXCEPT ![riPc] = roundState[riPc]]
          /\ riFailedAt' = riFailedAt
          /\ IF riPc = Len(RoundReads)
             THEN /\ riRet' = RoundRet(riVals', NoErr)
                  /\ riPc' = 0
             ELSE /\ riRet' = riRet
                  /\ riPc' = riPc + 1
    /\ UNCHANGED <<roundState, riHeld, riPrev, riCalls>>
    /\ UNCHANGED <<opVars, watchVars, mgrVars, rdVars, ptVars, tcVars, capVars>>

RoundNext ==
    \/ \E newRound \in BOOLEAN : ChainAdvance(newRound)
    \/ RoundInfo
    \/ RoundInfoRead

\* RoundInfo reads no event timeout
RoundInit ==
    eventTimeout = MaxTimeout /\ InitOp /\ InitWatch /\ InitMgrResolved /\ InitRest

RoundSpec == RoundInit /\ [][RoundNext]_vars

(***************************************************************************)
(* core/transcoder.go: Transcode of LocalTranscoder (lines 41-73) and of   *)
(* NvidiaTranscoder (lines 84-116), both with the named results td and     *)
(* retErr and with defer recoverFromPanic(&retErr) (lines 402-410).        *)
(***************************************************************************)
Transcoders == {"LocalTranscoder", "NvidiaTranscoder"}

\* the call: the named results start as nil, the deferred call is registered
TranscodeCall(k) ==
    /\ tcPc \in {"idle", "returned"}
    /\ tcCalls < MaxTranscodes
    /\ tcCalls' = tcCalls + 1
    /\ tcKind' = k
    /\ tcPc' = "transcode"
    /\ tcTd' = 0
    /\ tcRetErr' = NilError
    /\ tcPanic' = NoPanic
    /\ tcPanicked' = NoPanic
    /\ tcOwn' = TranscodeResult(0, NilError)
    /\ tcEscaped' = FALSE
    /\ UNCHANGED <<opVars, watchVars, mgrVars, rdVars, ptVars, riVars, capVars>>

\* a panic anywhere in the body (building the options, ffmpeg, the monitor,
\* resToTranscodeData): the body is left and the deferred call runs
TranscodePanics(v) ==
    /\ tcPc \in {"transcode", "convert"}
    /\ tcPanic' = v
    /\ tcPanicked' = v
    /\ tcPc' = "deferred"
    /\ UNCHANGED <<tcKind, tcOwn, tcTd, tcRetErr, tcEscaped, tcCalls>>
    /\ UNCHANGED <<opVars, watchVars, mgrVars, rdVars, ptVars, riVars, capVars>>

\* res, err := ffmpeg.Transcode3(in, opts) / nv.session.Transcode(in, out);
\* if err != nil { return nil, err } (lines 59-62, 102-105)
TranscodeRun ==
    /\ tcPc = "transcode"
    /\ \/ \E i \in 1..MaxErr :
            /\ tcTd' = 0
            /\ tcRetErr' = Error(i)
            /\ tcOwn' = TranscodeResult(0, Error(i))
            /\ tcPc' = "deferred"
       \/ /\ tcPc' = "convert"
          /\ UNCHANGED <<tcTd, tcRetErr, tcOwn>>
    /\ UNCHANGED <<tcKind, tcPanic, tcPanicked, tcEscaped, tcCalls>>
    /\ UNCHANGED <<opVars, watchVars, mgrVars, rdVars, ptVars, riVars, capVars>>

\* what resToTranscodeData returns (lines 322-365): nil data with an error,
\* or data with a nil error
ConvertResults ==
    {TranscodeResult(0, Error(i)) : i \in 1..MaxErr}
    \cup {TranscodeResult(t, NilError) : t \in 1..MaxTd}

\* return resToTranscodeData(ctx, res, opts) (lines 72, 115)
TranscodeConvert ==
    /\ tcPc = "convert"
    /\ \E r \in ConvertResults :
          /\ tcTd' = r.td
          /\ tcRetErr' = r.err
          /\ tcOwn' = r
    /\ tcPc' = "deferred"
    /\ UNCHANGED <<tcKind, tcPanic, tcPanicked, tcEscaped, tcCalls>>
    /\ UNCHANGED <<opVars, watchVars, mgrVars, rdVars, ptVars, riVars, capVars>>

\* r := recover(); r != nil (line 403).  The module is built with Go 1.17.6
\* (.github/workflows/mac.yml line 27), where recover returns nil both when
\* the goroutine is not panicking and when the argument of panic was nil.
RecoveredNonNil(p) == p.panicking /\ p.type # "nil"

\* err, ok := r.(error); if !ok { err = errors.New(...) } (lines 404-407)
RecoveredError(p) == IF p.type = "error" THEN Error(p.id) ELSE GenericFailure

\* the deferred recoverFromPanic(&retErr), then the return to the caller.
\* recover is called by the deferred function itself, so it ends the panic.
RecoverFromPanic ==
    /\ tcPc = "deferred"
    /\ tcPanic' = NoPanic
    /\ tcEscaped' = FALSE
    /\ tcRetErr' = IF RecoveredNonNil(tcPanic)
                   THEN NewUnrecoverableError(RecoveredError(tcPanic))
                   ELSE tcRetErr
    /\ tcPc' = "returned"
    /\ UNCHANGED <<tcKind, tcPanicked, tcOwn, tcTd, tcCalls>>
    /\ UNCHANGED <<opVars, watchVars, mgrVars, rdVars, ptVars, riVars, capVars>>

TranscodeNext ==
    \/ \E k \in Transcoders : TranscodeCall(k)
    \/ \E v \in PanicValues : TranscodePanics(v)
    \/ TranscodeRun
    \/ TranscodeConvert
    \/ RecoverFromPanic

TranscodeInit ==
    eventTimeout = MaxTimeout /\ InitOp /\ InitWatch /\ InitMgrResolved /\ InitRest

TranscodeSpec == TranscodeInit /\ [][TranscodeNext]_vars

(***************************************************************************)
(* core/transcoder.go: forEachTranscoderSample, TestTranscoderCapabilities *)
(* and TestSoftwareTranscoderCapabilities.                                 *)
(***************************************************************************)

\* what testNvidiaTranscode and testSoftwareTranscode can return (lines
\* 188-193, 255-260): on an error (false, false, err), else
\* (len(td.Segments) > 0, td.Pixels > 0, nil)
TestOutcomes ==
    {[err |-> TRUE, produced |-> FALSE, valid |-> FALSE]}
        \cup {[err |-> FALSE, produced |-> p, valid |-> v] : p, v \in BOOLEAN}

\* params.IsRequired() (lines 125-127)
IsRequiredNever(c) == FALSE

IsRequiredAlways(c) == TRUE

IsRequired(c) == c.required

\* !outputProduced || !outputValid (lines 232, 277)
OutputInvalidNever(out) == FALSE

OutputInvalid(out) == ~out.produced \/ ~out.valid

\* the condition of line 213
SessionLimitDetected(out) == out.err /\ out.produced /\ out.valid

CapNextIteration ==
    /\ capIdx' = capIdx + 1
    /\ capPc' = "loop"

CapAppend == caps' = Append(caps, capIdx)

\* history: one more 4-rendition test of the capability gave valid output
CountValid(out) ==
    okCount' = IF ~out.err /\ out.produced /\ out.valid
               THEN [okCount EXCEPT ![capIdx] = @ + 1]
               ELSE okCount

InCaps(i) == \E k \in 1..Len(caps) : caps[k] = i

TestTranscoderCapabilities(l, d) ==
    /\ capPc = "idle"
    /\ capMode' = "nvidia"
    /\ allCaps' = l
    /\ devices' = d
    /\ capIdx' = 1
    /\ capPc' = "loop"
    /\ UNCHANGED <<devIdx, runRestrictedSessionTest, caps, fatalError,
                   reached, ran, okCount, lastOut, sessAt, reqFailed>>
    /\ UNCHANGED <<opVars, watchVars, mgrVars, rdVars, ptVars, tcVars, riVars>>

TestSoftwareTranscoderCapabilities(l) ==
    /\ capPc = "idle"
    /\ capMode' = "software"
    /\ allCaps' = l
    /\ capIdx' = 1
    /\ capPc' = "loop"
    /\ UNCHANGED <<devices, devIdx, runRestrictedSessionTest, caps, fatalError,
                   reached, ran, okCount, lastOut, sessAt, reqFailed>>
    /\ UNCHANGED <<opVars, watchVars, mgrVars, rdVars, ptVars, tcVars, riVars>>

\* the range loop of forEachTranscoderSample up to the handler call: a
\* capability with a test whose sample cannot be unpacked or written is
\* skipped by continue (lines 159, 165, 170)
ForEachTranscoderSample ==
    /\ capPc = "loop"
    /\ \/ /\ capIdx > MaxCaps
          /\ capPc' = "returned"
          /\ UNCHANGED capIdx
       \/ /\ capIdx <= MaxCaps
          /\ capPc' = "handler"
          /\ UNCHANGED capIdx
       \/ /\ capIdx <= MaxCaps
          /\ allCaps[capIdx].testAvailable
          /\ CapNextIteration
    /\ UNCHANGED <<capMode, allCaps, devices, devIdx, runRestrictedSessionTest,
                   caps, fatalError, reached, ran, okCount, lastOut, sessAt,
                   reqFailed>>
    /\ UNCHANGED <<opVars, watchVars, mgrVars, rdVars, ptVars, tcVars, riVars>>

\* entry of either handler: no test for the capability: append it and go on
\* (lines 200-203, 265-268)
CapHandler ==
    /\ capPc = "handler"
    /\ reached' = [reached EXCEPT ![capIdx] = TRUE]
    /\ IF ~allCaps[capIdx].testAvailable
       THEN /\ CapAppend
            /\ CapNextIteration
            /\ UNCHANGED <<devIdx, runRestrictedSessionTest>>
       ELSE /\ capPc' = "device"
            /\ devIdx' = 1
            /\ runRestrictedSessionTest' = (capMode = "nvidia")
            /\ UNCHANGED <<caps, capIdx>>
    /\ UNCHANGED <<capMode, allCaps, devices, fatalError, ran, okCount,
                   lastOut, sessAt, reqFailed>>
    /\ UNCHANGED <<opVars, watchVars, mgrVars, rdVars, ptVars, tcVars, riVars>>

\* one round of the loop over the devices (lines 223-241)
NvidiaDeviceTest ==
    /\ capPc = "device"
    /\ capMode = "nvidia"
    /\ IF devIdx > devices
       THEN /\ CapAppend
            /\ CapNextIteration
            /\ UNCHANGED <<devIdx, runRestrictedSessionTest, ran, okCount,
                           lastOut>>
       ELSE \E out \in TestOutcomes :
            /\ ran' = [ran EXCEPT ![capIdx] = TRUE]
            /\ CountValid(out)
            /\ lastOut' = [lastOut EXCEPT ![capIdx] = out]
            /\ IF out.err \/ OutputInvalid(out)
               THEN /\ capPc' = "failed"
                    /\ UNCHANGED <<devIdx, runRestrictedSessionTest>>
               ELSE /\ runRestrictedSessionTest' = FALSE
                    /\ devIdx' = devIdx + 1
                    /\ UNCHANGED capPc
            /\ UNCHANGED <<caps, capIdx>>
    /\ UNCHANGED <<capMode, allCaps, devices, fatalError, reached, sessAt,
                   reqFailed>>
    /\ UNCHANGED <<opVars, watchVars, mgrVars, rdVars, ptVars, tcVars, riVars>>

\* transcodingFailed() and the handler's return fatalError == nil (lines
\* 206-222, 228, 234)
TranscodingFailed ==
    /\ capPc = "failed"
    /\ \E out \in TestOutcomes :
        LET c == allCaps[capIdx]
            afterSessionTest ==
                IF runRestrictedSessionTest /\ SessionLimitDetected(out)
                THEN "SessionLimit" ELSE fatalError
            afterRequired ==
                IF IsRequired(c) THEN "NotSupported" ELSE afterSessionTest
        IN  /\ fatalError' = afterRequired
            /\ sessAt' = IF /\ runRestrictedSessionTest
                            /\ devIdx = 1
                            /\ ~c.required
                            /\ out.produced /\ out.valid
                         THEN capIdx ELSE sessAt
            /\ reqFailed' = IF c.required THEN capIdx ELSE reqFailed
            /\ IF afterRequired = NoErr
               THEN CapNextIteration
               ELSE capPc' = "returned" /\ UNCHANGED capIdx
    /\ runRestrictedSessionTest' = FALSE
    /\ UNCHANGED <<capMode, allCaps, devices, devIdx, caps, reached, ran,
                   okCount, lastOut>>
    /\ UNCHANGED <<opVars, watchVars, mgrVars, rdVars, ptVars, tcVars, riVars>>

\* the tested branch of TestSoftwareTranscoderCapabilities' handler (lines
\* 270-284)
SoftwareTest ==
    /\ capPc = "device"
    /\ capMode = "software"
    /\ \E out \in TestOutcomes :
        /\ ran' = [ran EXCEPT ![capIdx] = TRUE]
        /\ CountValid(out)
        /\ lastOut' = [lastOut EXCEPT ![capIdx] = out]
        /\ IF out.err
           THEN /\ CapNextIteration
                /\ UNCHANGED <<caps, fatalError>>
           ELSE IF OutputInvalid(out)
           THEN /\ fatalError' = "EmptySegment"
                /\ capPc' = "returned"
                /\ UNCHANGED <<capIdx, caps>>
           ELSE /\ CapAppend
                /\ CapNextIteration
                /\ UNCHANGED fatalError
    /\ UNCHANGED <<capMode, allCaps, devices, devIdx, runRestrictedSessionTest,
                   reached, sessAt, reqFailed>>
    /\ UNCHANGED <<opVars, watchVars, mgrVars, rdVars, ptVars, tcVars, riVars>>

CapNext ==
    \/ \E l \in CapLists, d \in 0..MaxDevices : TestTranscoderCapabilities(l, d)
    \/ \E l \in CapLists : TestSoftwareTranscoderCapabilities(l)
    \/ ForEachTranscoderSample
    \/ CapHandler
    \/ NvidiaDeviceTest
    \/ TranscodingFailed
    \/ SoftwareTest

CapInit ==
    eventTimeout = MaxTimeout /\ InitOp /\ InitWatch /\ InitMgrResolved /\ InitRest

CapSpec == CapInit /\ [][CapNext]_vars

(***************************************************************************)
(* Claims about the approval chain (Bond, Deposit) and the direct-submit   *)
(* operations.                                                             *)
(***************************************************************************)
\* the Bond or Deposit contract call has been handed to the node
DepDispatched == \E i \in DOMAIN dispatched : dispatched[i] \in ApprovalOps

C3_ApproveErrorDelivered ==
    (approveErr # NoErr /\ ~ENABLED Program) =>
        /\ outcomes = <<ErrOutcome(approveErr)>>
        /\ ~DepDispatched

\* C4 (as claimed): every invocation of a direct-submit operation eventually
\* resolves its handle to exactly one outcome, with both channels closed.
C4_DirectResolves ==
    [](op \in DirectOps => <>(bPc = "done" /\ Len(outcomes) = 1 /\ outClosed))

\* C5 (as claimed): with a node that never has a receipt, WaitForReceipt
\* returns the confirmation-timeout error no earlier than eventTimeout and no
\* later than eventTimeout plus one polling interval after it was entered:
\* it is never still in its loop later than that.
C5_TimeoutWindow ==
    /\ bPc \in {"wfrLoop", "wfrPoll"} => elapsed <= eventTimeout + 1
    /\ wfrRet.err = "ConfirmationTimeout" =>
           /\ eventTimeout <= elapsed
           /\ elapsed <= eventTimeout + 1

\* C6: for every gas limit and every receipt the node returned for the
\* transaction, WaitForReceipt returns the revert error and no receipt when
\* gasUsed equals the gas limit, and that receipt with no error when gasUsed
\* is below the gas limit.
C6_GasClassification ==
    (found.present /\ wfrRet.returned) =>
        /\ found.gasUsed = txGas => wfrRet = Ret(NilReceipt, "Threw")
        /\ found.gasUsed < txGas => wfrRet = Ret(found, NoErr)

C6_Witness ==
    /\ found.present
    /\ found.gasUsed < txGas
    /\ wfrRet = Ret(found, NoErr)
    /\ outcomes = <<ResOutcome(found)>>

\* C9 (as claimed): once Bond/Deposit has ended its wait for the grant
\* event, by a log or by the timeout, and has delivered its outcome, the
\* Approval subscription it opened has been released exactly once.
C9_SubscriptionReleased ==
    (op \in ApprovalOps /\ bPc = "done") =>
        /\ sub = "unsubscribed"
        /\ unsubCount = 1

\* C13: a direct-submit operation makes its contract call at most once and,
\* once past it, exactly once; when the call failed nothing was dispatched,
\* no receipt was read, and the dispatch error is the only outcome; and
\* however many receipt reads follow a dispatch, the transaction stays the
\* only one dispatched.
C13_DispatchedOnce ==
    op \in DirectOps =>
        /\ attempts <= 1
        /\ Len(dispatched) <= 1
        /\ bPc # "dispatch" => attempts = 1
        /\ bErr = "SubmissionError" =>
               /\ dispatched = <<>>
               /\ polls = 0
               /\ outcomes \in {<<>>, <<ErrOutcome("SubmissionError")>>}
               /\ bPc = "done" => outcomes = <<ErrOutcome("SubmissionError")>>
        /\ polls > 0 => dispatched = <<op>>

\* the receipt was read MaxClock times or more after one dispatch
C13_Witness ==
    /\ op = "Reward"
    /\ polls = MaxClock
    /\ attempts = 1
    /\ dispatched = <<"Reward">>

\* C14 (as claimed): the thread that calls an operation never waits in a
\* channel send, and whenever the program can take no further step the call
\* has returned its handle.
C14_CallerNeverBlocks ==
    /\ callerPc # "blockedSend"
    /\ (op # "none" /\ ~ENABLED Program) => callerPc = "returned"

\* C16 (as claimed): a receipt that WaitForReceipt classified, as confirmed
\* or as reverted, or returned, carries the hash of the awaited transaction.
C16_ReceiptHashMatches ==
    /\ found.present => found.txHash = "tx"
    /\ wfrRet.receipt.present => wfrRet.receipt.txHash = "tx"

\* C18: when WaitForReceipt ended in the revert error or in the timeout
\* error it returned no receipt, the goroutine is sending or has sent that
\* error, and the caller has received nothing else: no receipt, and after
\* the handle is closed exactly that error.
C18_NoReceiptForFailed ==
    (wfrRet.returned /\ wfrRet.err \in {"Threw", "ConfirmationTimeout"}) =>
        /\ wfrRet.receipt = NilReceipt
        /\ bPc \in {"sendErr", "closing", "done"}
        /\ bErr = wfrRet.err
        /\ outcomes \in {<<>>, <<ErrOutcome(wfrRet.err)>>}
        /\ bPc \in {"closing", "done"} => outcomes = <<ErrOutcome(wfrRet.err)>>

\* InitializeRound on a round already initialized: the receipt shows all the
\* gas used and the caller got the revert error
C18_Witness ==
    /\ op = "InitializeRound"
    /\ found.present
    /\ found.gasUsed = txGas
    /\ wfrRet = Ret(NilReceipt, "Threw")
    /\ bPc = "done"
    /\ outcomes = <<ErrOutcome("Threw")>>

\* C19 (as claimed): in a run of Bond in which a log not flagged removed
\* reached the client before the timer expired, the grant was dispatched
\* first and at most one Bond call is made; once the program has come to
\* rest the Bond call has been made, and when a receipt with gasUsed below
\* the gas limit was found the caller has received that receipt.
C19_BondAfterGrantLog ==
    (op = "Bond" /\ arrivedInTime) =>
        /\ dispatched # <<>>
        /\ dispatched[1] = "Approve"
        /\ attempts <= 1
        /\ ~ENABLED Program =>
               /\ attempts = 1
               /\ (found.present /\ found.gasUsed < txGas) =>
                      outcomes = <<ResOutcome(found)>>

\* C20 (as claimed): the caller of Bond or Deposit never receives a second
\* outcome, and once the call has returned its handle and the handle's
\* channels are closed it has received exactly one.
C20_ExactlyOneOutcome ==
    op \in ApprovalOps =>
        /\ Len(outcomes) <= 1
        /\ (callerPc = "returned" /\ outClosed) => Len(outcomes) = 1

\* the grant's Approval log was produced and retracted, then produced again
\* not retracted, both before the timer expired
RetractedThenValid ==
    /\ Len(logHist) >= 2
    /\ logHist[1].own
    /\ logHist[1].removed
    /\ logHist[2].own
    /\ ~logHist[2].removed
    /\ timer # "fired"

\* C21 (as claimed): when the first Approval log was retracted and a log not
\* retracted followed it before the timer expired, Bond/Deposit have made
\* their contract call by the time the program (which has not died) can take
\* no further step.
C21_WaitsPastRetracted ==
    (op \in ApprovalOps /\ RetractedThenValid /\ ~crashed /\ ~ENABLED Program) =>
        attempts = 1

\* C22: in Bond and Deposit the grant is dispatched only while the Approval
\* subscription of the account is established: the thread is at the grant's
\* dispatch only with the subscription active, nothing was dispatched while
\* there is no subscription, and after a failed subscription nothing is
\* dispatched at all.
C22_GrantAfterSubscription ==
    op \in ApprovalOps =>
        /\ callerPc \in {"approveTx", "spawn"} => sub = "active"
        /\ sub = "none" => dispatched = <<>>
        /\ approveErr = "SubscriptionError" => dispatched = <<>>
        /\ dispatched # <<>> => dispatched[1] = "Approve"

\* the grant's own log was produced right after the dispatch, before Approve
\* had started its goroutine, and the subscription holds it
C22_Witness ==
    /\ op = "Deposit"
    /\ callerPc = "spawn"
    /\ dispatched = <<"Approve">>
    /\ sub = "active"
    /\ logHist = <<[removed |-> FALSE, own |-> TRUE]>>
    /\ subQueue = <<Log(1, FALSE)>>

(***************************************************************************)
(* Claims about WatchEvent, checked under WatchSpec.                       *)
(***************************************************************************)
\* the logs of a sequence that are not flagged removed
ValidIn(seq) == {i \in DOMAIN seq : ~seq[i].removed}
FirstValid(seq) == seq[CHOOSE i \in ValidIn(seq) : \A j \in ValidIn(seq) : i <= j]

\* C7: WatchEvent never returns a log flagged removed; when it returns a log,
\* that is the first log not flagged removed among all the logs handed to the
\* channel, every log before it was received and skipped, and it returns the
\* timeout error only after the timer expired and only when it received no
\* log that is not removed.
C7_FirstValidLog ==
    wRet.returned =>
        /\ ~wRet.log.removed
        /\ wRet.err = NoErr =>
               /\ ValidIn(wSent) # {}
               /\ wRet.log = FirstValid(wSent)
               /\ wRecvd = SubSeq(wSent, 1, wRet.log.id)
        /\ wRet.err # NoErr =>
               /\ wRet.err = "EventTimeout"
               /\ wClock - wStart >= eventTimeout
               /\ ValidIn(wRecvd) = {}

\* the sequence [removed, removed, valid] gives the valid log
C7_Witness ==
    /\ wSent = <<Log(1, TRUE), Log(2, TRUE), Log(3, FALSE)>>
    /\ wRet = WatchRet(Log(3, FALSE), NoErr)

\* C8: the timeout of WatchEvent is measured once from the start of the call:
\* while the call waits, its timer case is ready exactly when eventTimeout
\* has passed since the call, however many removed logs were received; and
\* the timeout error is returned only then, with no log accepted.
C8_TimeoutNotRestarted ==
    /\ wPc = "waiting" =>
           /\ WatchTimerFired <=> (wClock - wStart >= eventTimeout)
           /\ (ENABLED WatchTimeout) <=> (wClock - wStart >= eventTimeout)
    /\ (wRet.returned /\ wRet.err = "EventTimeout") =>
           /\ wClock - wStart >= eventTimeout
           /\ ValidIn(wRecvd) = {}

\* two removed logs were received before the timer expired, and the call
\* returned the timeout error exactly eventTimeout after its start
C8_Witness ==
    /\ wRet.returned
    /\ wRet.err = "EventTimeout"
    /\ eventTimeout = 2
    /\ wClock - wStart = eventTimeout
    /\ Len(wRecvd) >= 2

(***************************************************************************)
(* Claims about SetManagers, checked under ManagersSpec.                   *)
(***************************************************************************)
\* C10 (as claimed): when a re-resolution by SetManagers has failed on the
\* lookup or the binding of any role, the addresses and sessions of all three
\* roles are exactly what they were before the call.
C10_FailedResolveKeepsBindings ==
    (smCall = "SetManagers" /\ smPc = "idle" /\ smRet = "err") =>
        Bindings = smBefore

\* C11 (as claimed): a reader that read the bindings while a re-resolution
\* was running, one that went on to succeed as the resolution before it had,
\* saw either the bindings as they were before that call or the bindings as
\* the call left them, never some roles from the one and some from the other.
C11_NoMixedBindings ==
    (/\ smCalls > 0
     /\ rObsCall = smCalls
     /\ smPc = "idle"
     /\ smRet = "nil"
     /\ smPrevRet = "nil") =>
        rObs \in {smBefore, Bindings}

C17_FreshParams ==
    /\ \A i \in ParamIdx : ptVals[i] # 0 => ptVals[i] \in ptHeld[i]
    /\ (ptPc = 0 /\ ptRet.returned /\ ptRet.err = NoErr) =>
           \A i \in ParamIdx : ptRet.vals[i] \in ptHeld[i]
    /\ (ptPc = 0 /\ ptRet.returned /\ ptRet.err # NoErr) =>
           ptRet.vals = NoParams

\* two calls with a change of a parameter between them: the second returns
\* the chain's values, which differ from what the first returned
C17_Witness ==
    /\ ptCalls = 2
    /\ ptPc = 0
    /\ ptPrev.returned
    /\ ptPrev.err = NoErr
    /\ ptRet.returned
    /\ ptRet.err = NoErr
    /\ ptRet.vals = chain
    /\ ptRet.vals # ptPrev.vals
    /\ \A i \in ParamIdx : ptHeld[i] = {chain[i]}

(***************************************************************************)
(* Claims about RoundInfo, checked under RoundSpec.                        *)
(***************************************************************************)
\* C23: RoundInfo issues each of its three reads at most once per call, in
\* order; every value it has read or returns with a nil error is one the
\* chain held between the call and its return; and when a read failed, the
\* call returned the error of that read with no value at all and issued no
\* read after it, whatever the call before had returned.
C23_RoundInfoLive ==
    /\ riReads <= Len(RoundReads)
    /\ riPc # 0 => riReads = riPc - 1
    /\ \A i \in RoundIdx : riVals[i] # 0 => riVals[i] \in riHeld[i]
    /\ (riPc = 0 /\ riRet.returned /\ riRet.err = NoErr) =>
           /\ riReads = Len(RoundReads)
           /\ riFailedAt = 0
           /\ \A i \in RoundIdx : riRet.vals[i] \in riHeld[i]
    /\ riFailedAt # 0 =>
           /\ riPc = 0
           /\ riReads = riFailedAt
           /\ riRet = RoundRet(NoRound, ReadError(riFailedAt))

\* a first call returned the round state; the chain advanced into a new
\* round; the second call failed at its last read and returned no value
C23_Witness ==
    /\ riCalls = 2
    /\ riPrev.returned
    /\ riPrev.err = NoErr
    /\ riPrev.vals # roundState
    /\ riFailedAt = Len(RoundReads)
    /\ riVals[1] = roundState[1]
    /\ riVals[1] # riPrev.vals[1]
    /\ riRet = RoundRet(NoRound, "BlockByNumber")

(***************************************************************************)
(* Claims about Transcode, checked under TranscodeSpec.                    *)
(***************************************************************************)
\* C15 (as claimed): when Transcode has returned, no panic reached the
\* caller; after a panic in the body retErr is an UnrecoverableError, around
\* the panic value when that is an error and around the generic failure
\* otherwise; and without a panic td and retErr are what the body returned.
C15_PanicBecomesError ==
    tcPc = "returned" =>
        /\ ~tcEscaped
        /\ tcPanicked.panicking =>
               /\ ~tcRetErr.nil
               /\ tcRetErr.unrecoverable
               /\ tcPanicked.type = "error" =>
                      tcRetErr = NewUnrecoverableError(Error(tcPanicked.id))
               /\ tcPanicked.type # "error" =>
                      tcRetErr = NewUnrecoverableError(GenericFailure)
        /\ ~tcPanicked.panicking => TranscodeResult(tcTd, tcRetErr) = tcOwn


(***************************************************************************)
(* Further claims about the approval chain, checked under Spec, and about  *)
(* NewClient, checked under ManagersSpec.                                  *)
(***************************************************************************)
\* C27 (as claimed): Bond or Deposit is about to dispatch its dependent
\* transaction only on a grant log of the operation's own approval; an
\* Approval log of the same account caused by another operation's approval
\* never releases it.
C27_OwnGrantOnly ==
    (op \in ApprovalOps /\ bPc = "dispatch") =>
        /\ bLog.id \in DOMAIN logHist
        /\ logHist[bLog.id].own

\* C28 (as claimed): the subscription never has a log to send on the log
\* channel after Approve's goroutine closed it, so no send on a closed
\* channel happens.
C28_NoSendAfterClose ==
    /\ ~(sub = "active" /\ logsChClosed /\ subQueue # <<>>)
    /\ ~crashed

\* C29 (as claimed): once Bond or Deposit has delivered its outcome and its
\* own goroutine has ended, with no step of the program left to take,
\* Approve's forwarding goroutine, if it has received a log, has ended too.
C29_BackgroundTasksEnd ==
    (op \in ApprovalOps /\ outcomes # <<>> /\ bPc = "done" /\ ~crashed
         /\ aPc # "recv" /\ ~ENABLED Program) =>
        aPc = "done"

\* C30 (as claimed): when NewClient has returned a client and no error, the
\* client holds an address and a session for each of the three managers.
C30_ClientFullyBound ==
    (constructed /\ smCall = "NewClient" /\ smPc = "idle") =>
        \A i \in RoleIdx : mAddr[i] # 0 /\ mSession[i] # 0

\* C31: in WaitForReceipt a not-found answer is the only one retried: after
\* it the wait is still polling (or has ended by the timeout of line 809),
\* while after a fetch that failed with another error the wait has returned
\* that error and no receipt, no further poll is under way, the goroutine
\* holds that error for delivery, and once the program can take no further
\* step the operation's outcome is that error.
C31_OnlyNotFoundRetried ==
    /\ lastFetch = "NotFound" =>
           \/ bPc \in {"wfrLoop", "wfrPoll"}
           \/ wfrRet = Ret(NilReceipt, "ConfirmationTimeout")
    /\ (lastFetch # NoErr /\ lastFetch # "NotFound") =>
           /\ wfrRet = Ret(NilReceipt, lastFetch)
           /\ bErr = lastFetch
           /\ bPc \in {"sendErr", "closing", "done"}
           /\ bPc # "sendErr" => outcomes = <<ErrOutcome(lastFetch)>>
           /\ ~ENABLED Program => outcomes = <<ErrOutcome(lastFetch)>>

C31_Witness ==
    /\ op = "Reward"
    /\ lastFetch = "RpcError"
    /\ polls = 2
    /\ elapsed = 1
    /\ bPc = "done"
    /\ outcomes = <<ErrOutcome("RpcError")>>

(***************************************************************************)
(* Claims about the capability tests, checked under CapSpec.               *)
(***************************************************************************)
\* C24 (as claimed): in TestTranscoderCapabilities, once the 4-rendition test
\* of an optional capability has failed on the first device and the
\* 3-rendition test on that device has produced valid output, the function
\* has returned the fatal error of the restricted NVENC session limit and no
\* later capability was handed to the handler.
C24_SessionLimitDetected ==
    (capMode = "nvidia" /\ sessAt # 0) =>
        /\ capPc = "returned"
        /\ fatalError = "SessionLimit"
        /\ \A j \in CapIdx : j > sessAt => ~reached[j]

\* C25: in TestTranscoderCapabilities, once a required capability that has a
\* test has failed it on some device (a transcode error, or empty or invalid
\* output), the function has returned with a non-nil fatal error, that
\* capability is not in the returned list, and no capability later in the
\* iteration order was handed to the handler, tested or added.
C25_RequiredFailureIsFatal ==
    (capMode = "nvidia" /\ reqFailed # 0) =>
        /\ capPc = "returned"
        /\ fatalError # NoErr
        /\ ~InCaps(reqFailed)
        /\ \A j \in CapIdx :
               j > reqFailed => (~reached[j] /\ ~ran[j] /\ ~InCaps(j))

C25_Witness ==
    /\ capMode = "nvidia"
    /\ capPc = "returned"
    /\ devices = 2
    /\ reqFailed = 2
    /\ okCount[2] = 1
    /\ allCaps[2].required /\ allCaps[2].testAvailable
    /\ ~allCaps[3].testAvailable
    /\ caps = <<1>>
    /\ fatalError = "NotSupported"

\* C26: in both functions every capability without a test that the iteration
\* handed to the handler is in the list and no transcode was run for it, and
\* a capability with a test is in the list only when its test gave valid
\* output on every device (once, for the software transcoder).
C26_IncludedCapabilities ==
    capMode # "none" =>
        \A i \in CapIdx :
            /\ (reached[i] /\ ~allCaps[i].testAvailable) =>
                   (InCaps(i) /\ ~ran[i])
            /\ (InCaps(i) /\ allCaps[i].testAvailable) =>
                   /\ ran[i] \/ (capMode = "nvidia" /\ devices = 0)
                   /\ okCount[i] = IF capMode = "nvidia" THEN devices ELSE 1

C26_Witness ==
    /\ capMode = "nvidia"
    /\ capPc = "returned"
    /\ devices = 2
    /\ ~allCaps[1].testAvailable
    /\ allCaps[2].testAvailable /\ okCount[2] = 2
    /\ allCaps[3].testAvailable /\ ran[3] /\ okCount[3] = 1
    /\ caps = <<1, 2>>
    /\ fatalError = NoErr


\* the handler has finished with capability i, whose test was run
CapTested(i) ==
    /\ ran[i]
    /\ ~(capIdx = i /\ capPc \in {"device", "failed"})

\* C32: in TestTranscoderCapabilities an optional capability whose test
\* failed on some device (no session limit is ever detected) is not in the
\* list, has set no fatal error, and the iteration has gone on past it; in
\* TestSoftwareTranscoderCapabilities a capability whose transcode returned
\* an error is not in the list and the iteration has gone on past it, while
\* one whose transcode gave empty or invalid output has set the fatal error
\* and stopped the iteration: it is not in the list and no later capability
\* was handed to the handler.
C32_OptionalAndSoftwareFailures ==
    \A i \in CapIdx :
        /\ (/\ capMode = "nvidia"
            /\ CapTested(i)
            /\ ~allCaps[i].required
            /\ lastOut[i].err \/ ~lastOut[i].produced \/ ~lastOut[i].valid) =>
               /\ ~InCaps(i)
               /\ fatalError = NoErr
               /\ capIdx > i
        /\ (capMode = "software" /\ CapTested(i) /\ lastOut[i].err) =>
               /\ ~InCaps(i)
               /\ capIdx > i
        /\ (/\ capMode = "software"
            /\ CapTested(i)
            /\ ~lastOut[i].err
            /\ ~lastOut[i].produced \/ ~lastOut[i].valid) =>
               /\ ~InCaps(i)
               /\ fatalError = "EmptySegment"
               /\ capPc = "returned"
               /\ capIdx = i
               /\ \A j \in CapIdx : j > i => ~reached[j]

C32_Witness ==
    /\ capMode = "nvidia"
    /\ capPc = "returned"
    /\ devices = 2
    /\ ~allCaps[1].required
    /\ okCount[1] = 1
    /\ lastOut[1].err
    /\ allCaps[2].testAvailable /\ okCount[2] = 2
    /\ ~allCaps[3].testAvailable
    /\ caps = <<2, 3>>
    /\ fatalError = NoErr

=============================================================================
